---- MODULE Spec2Model ----
(***************************************************************************)
(* State-machine model of the VNStock API service (src/app.py): the        *)
(* authorization gate, the four HTTP routes and the multi-source fallback  *)
(* loop of get_stock_price.                                                *)
(***************************************************************************)
EXTENDS Integers, Sequences, FiniteSets, TLC

(***************************************************************************)
(* Bounds of the model.                                                    *)
(***************************************************************************)
\* Longest 'symbols' list a batch body carries.
MaxBatch == 2

(***************************************************************************)
(* Python values that reach the handlers: None, str, int and list.         *)
(***************************************************************************)
None == [t |-> "none", s |-> "", items |-> <<>>]
PyStr(x) == [t |-> "str", s |-> x, items |-> <<>>]
PyInt(x) == [t |-> "int", s |-> x, items |-> <<>>]
PyList(q) == [t |-> "list", s |-> "", items |-> q]

\* Python truthiness (bool(v)) of a value, as used by 'if API_KEY' and
\* 'not symbols'.
Truthy(v) ==
    CASE v.t = "none" -> FALSE
      [] v.t = "str"  -> v.s # ""
      [] v.t = "int"  -> v.s # "0"
      [] v.t = "list" -> v.items # <<>>

\* What an f-string interpolation {v} renders for a value.
Format(v) ==
    CASE v.t = "none" -> "None"
      [] v.t = "str"  -> v.s
      [] v.t = "int"  -> v.s
      [] v.t = "list" -> "[...]"

\* Name of the Python type, as it appears in an AttributeError message.
TypeName(v) ==
    CASE v.t = "none" -> "NoneType"
      [] v.t = "str"  -> "str"
      [] v.t = "int"  -> "int"
      [] v.t = "list" -> "list"

\* The letters str.upper() changes.
UpperTable ==
    ("a" :> "A") @@ ("b" :> "B") @@ ("c" :> "C") @@ ("d" :> "D") @@ ("e" :> "E") @@
    ("f" :> "F") @@ ("g" :> "G") @@ ("h" :> "H") @@ ("i" :> "I") @@ ("j" :> "J") @@
    ("k" :> "K") @@ ("l" :> "L") @@ ("m" :> "M") @@ ("n" :> "N") @@ ("o" :> "O") @@
    ("p" :> "P") @@ ("q" :> "Q") @@ ("r" :> "R") @@ ("s" :> "S") @@ ("t" :> "T") @@
    ("u" :> "U") @@ ("v" :> "V") @@ ("w" :> "W") @@ ("x" :> "X") @@ ("y" :> "Y") @@
    ("z" :> "Z")

\* str.upper() on one character.
UpperChar(c) == IF c \in DOMAIN UpperTable THEN UpperTable[c] ELSE c

RECURSIVE UpperFrom(_, _)
UpperFrom(x, i) ==
    IF i > Len(x) THEN "" ELSE UpperChar(SubSeq(x, i, i)) \o UpperFrom(x, i + 1)

\* str.upper() on a string.
Upper(x) == UpperFrom(x, 1)

\* symbol.upper(): the uppercased text, or the AttributeError a value that is
\* not a str raises.
symbol_upper(v) ==
    IF v.t = "str"
    THEN [ok |-> TRUE, v |-> Upper(v.s), err |-> ""]
    ELSE [ok |-> FALSE, v |-> "",
          err |-> "'" \o TypeName(v) \o "' object has no attribute 'upper'"]

\* sub occurs in x.
Contains(x, sub) ==
    \E i \in 1..(Len(x) - Len(sub) + 1) : SubSeq(x, i, i + Len(sub) - 1) = sub

(***************************************************************************)
(* Upstream data: cells of a bar, bars, data frames, outcomes of one call. *)
(***************************************************************************)
Absent == [k |-> "absent", n |-> 0, s |-> ""]
Num(n) == [k |-> "num", n |-> n, s |-> ""]
NaN == [k |-> "nan", n |-> 0, s |-> ""]
Text(x) == [k |-> "str", n |-> 0, s |-> x]
\* JSON null in a Quote.
Null == [k |-> "null", n |-> 0, s |-> ""]

BarOld == [time |-> Text("2024-01-08"), open |-> Num(90), high |-> Num(95),
           low |-> Num(89), close |-> Num(91), volume |-> Num(500)]
BarFull == [time |-> Text("2024-01-09"), open |-> Num(100), high |-> Num(110),
            low |-> Num(99), close |-> Num(105), volume |-> Num(700)]
BarCloseOnly == [time |-> Absent, open |-> Absent, high |-> Absent,
                 low |-> Absent, close |-> Num(42), volume |-> Absent]
BarNoClose == [time |-> Text("2024-01-09"), open |-> Num(100), high |-> Num(110),
               low |-> Num(99), close |-> Absent, volume |-> Num(700)]
BarNaNVolume == [time |-> Text("2024-01-09"), open |-> Num(100), high |-> Num(110),
                 low |-> Num(99), close |-> Num(105), volume |-> NaN]

\* The local df: not yet bound, None, or a frame of rows (oldest first).
Unbound == [t |-> "unbound", rows |-> <<>>]
DFNone == [t |-> "none", rows |-> <<>>]
Frame(rows) == [t |-> "frame", rows |-> rows]
DFEmpty == Frame(<<>>)

DataFrames == {Frame(<<BarOld, BarFull>>), Frame(<<BarCloseOnly>>),
               Frame(<<BarNoClose>>), Frame(<<BarNaNVolume>>)}

UpstreamErrors == {"timeout", "blocked"}

Raises(e) == [kind |-> "raise", err |-> e, df |-> Unbound]
Returns(d) == [kind |-> "return", err |-> "", df |-> d]
\* The attempt failed while evaluating the call's arguments: upstream was
\* never reached.
ArgError(e) == [kind |-> "argerror", err |-> e, df |-> Unbound]

Outcomes == {Raises(e) : e \in UpstreamErrors}
            \cup {Returns(DFNone), Returns(DFEmpty)}
            \cup {Returns(d) : d \in DataFrames}

\* datetime.now().strftime('%Y-%m-%d') at the time of the request.
end_date == "2024-01-10"

(***************************************************************************)
(* Inputs.                                                                 *)
(***************************************************************************)
ApiKeys == {None, PyStr(""), PyStr("secret")}
Headers == {None, PyStr("secret"), PyStr("Secret")}
UrlSymbols == {PyStr("fpt"), PyStr("VNM")}
ListItems == {PyStr("fpt"), PyStr("VNM"), PyInt("123")}

RECURSIVE SeqsUpTo(_, _)
SeqsUpTo(S, n) ==
    IF n = 0 THEN {<<>>}
    ELSE LET shorter == SeqsUpTo(S, n - 1)
         IN  shorter \cup {Append(q, x) : q \in {r \in shorter : Len(r) = n - 1}, x \in S}

\* request.get_json(): a JSON object with or without the key 'symbols', or a
\* JSON array.
Object(has, v) == [kind |-> "object", has |-> has, symbols |-> v]
ArrayBody == [kind |-> "array", has |-> FALSE, symbols |-> None]
NoBody == [kind |-> "none", has |-> FALSE, symbols |-> None]

Bodies == {Object(FALSE, None), ArrayBody, Object(TRUE, PyStr("ABC")),
           Object(TRUE, None)}
          \cup {Object(TRUE, PyList(q)) : q \in SeqsUpTo(ListItems, MaxBatch)}

(***************************************************************************)
(* State.                                                                  *)
(***************************************************************************)
VARIABLES
    API_KEY,          \* module global read from the environment at start
    VnstockInstalled, \* FALSE when the import failed and Vnstock is None
    request,          \* the request being (or last) handled
    pc,               \* position of the handler: idle, call, loop, post, done
    symbols,          \* get_stocks_batch: the list being iterated
    results,          \* get_stocks_batch: results appended so far
    symbol,           \* get_stock_price: its argument
    source_i,         \* get_stock_price: index into sources of the next attempt
    df,               \* get_stock_price: local df
    last_error,       \* get_stock_price: local last_error
    ret,              \* how the most recent get_stock_price call ended
    response,         \* the response sent for the request
    attempts,         \* log of the current call: the sources tried, and how
    raised,           \* log: text of the most recent error an attempt raised
    served,           \* log: the first usable frame upstream returned
    fetchCalls,       \* get_stock_price calls made for the request
    upstreamCalls     \* upstream calls made for the request

vars == <<API_KEY, VnstockInstalled, request, pc, symbols, results, symbol,
          source_i, df, last_error, ret, response, attempts, raised, served,
          fetchCalls, upstreamCalls>>

config == <<API_KEY, VnstockInstalled>>
frame == <<symbol, source_i, df, last_error, attempts, raised, served>>

\* A plausible slip: the first two sources are declared in the other order.
sources_reordered == <<"VND", "TCBS", "MSN", "VCI">>

\* Line 36: the declared order of the upstream sources.
sources == <<"TCBS", "VND", "MSN", "VCI">>

NoRequest == [route |-> "", header |-> None, symbol |-> None, body |-> NoBody]
NoResponse == [status |-> 0, body |-> [pending |-> TRUE]]
NoReturn == [ok |-> TRUE, v |-> [pending |-> TRUE], err |-> ""]

\* A normal return of a dict, and an exception leaving the function.
Return(d) == [ok |-> TRUE, v |-> d, err |-> ""]
Raise(e) == [ok |-> FALSE, v |-> [raised |-> e], err |-> e]

ErrorResult(msg, sym) == [error |-> msg, symbol |-> sym]

(***************************************************************************)
(* verify_api_key                                                          *)
(***************************************************************************)
\* A plausible slip: a request without the header is let through.
verify_api_key_lenient(provided_key) ==
    IF Truthy(API_KEY) /\ provided_key # None
    THEN provided_key = API_KEY
    ELSE TRUE

verify_api_key(provided_key) ==
    IF Truthy(API_KEY)
    THEN provided_key = API_KEY
    ELSE TRUE

(***************************************************************************)
(* get_stock_price: the pure parts.                                        *)
(***************************************************************************)
\* float(cell) and int(cell) of a present cell.
float_of(c) ==
    CASE c.k = "num" -> Return(c)
      [] c.k = "nan" -> Return(c)
      [] c.k = "str" -> Raise("could not convert string to float: '" \o c.s \o "'")
      [] OTHER       -> Raise("float() argument must be a string or a real number")

int_of(c) ==
    CASE c.k = "num" -> Return(c)
      [] c.k = "nan" -> Raise("cannot convert float NaN to integer")
      [] c.k = "str" -> Raise("invalid literal for int() with base 10: '" \o c.s \o "'")
      [] OTHER       -> Raise("int() argument must be a string or a real number")

\* 'name' in latest
Has(latest, name) == latest[name] # Absent

\* float(latest[name]) if name in latest else None
optional_float(latest, name) ==
    IF Has(latest, name) THEN float_of(latest[name]) ELSE Return(Null)

\* A plausible slip: the loop never breaks on a usable frame.
NeverUsable(d) == FALSE

\* df is not None and not df.empty
Usable(d) == d.t = "frame" /\ d.rows # <<>>

\* df.iloc[-1]
last_row(d) == d.rows[Len(d.rows)]

\* Lines 58-70: the Quote built from the last bar, or the exception raised
\* on the way, in evaluation order.
build_quote(sym, d) ==
    LET latest == last_row(d)
        price  == IF Has(latest, "close") THEN float_of(latest["close"])
                  ELSE Raise("'close'")
        date   == IF Has(latest, "time") THEN latest["time"].s ELSE end_date
        open   == optional_float(latest, "open")
        high   == optional_float(latest, "high")
        low    == optional_float(latest, "low")
        volume == IF Has(latest, "volume") THEN int_of(latest["volume"])
                  ELSE Return(Null)
        up     == symbol_upper(sym)
    IN  CASE ~price.ok  -> price
          [] ~up.ok     -> Raise(up.err)
          [] ~open.ok   -> open
          [] ~high.ok   -> high
          [] ~low.ok    -> low
          [] ~volume.ok -> volume
          [] OTHER      ->
               Return([symbol |-> up.v, price |-> price.v, date |-> date,
                       source |-> "vnstock3-api", open |-> open.v,
                       high |-> high.v, low |-> low.v, volume |-> volume.v])

\* return {"error": msg, "symbol": symbol.upper()}
error_return(msg, sym) ==
    LET up == symbol_upper(sym)
    IN  IF up.ok THEN Return(ErrorResult(msg, up.v)) ELSE Raise(up.err)

\* Lines 71-72: the outer handler turns an exception of the body into an
\* ErrorResult; building that ErrorResult can raise again.
outer_except(sym, body) ==
    IF body.ok THEN body ELSE error_return(body.err, sym)

\* Lines 55-72: what get_stock_price does after the loop.
after_loop(sym, d, err) ==
    outer_except(sym,
        IF d.t = "unbound" \/ d.t = "none" \/ d.rows = <<>>
        THEN error_return("No data available for " \o Format(sym)
                          \o ". Last error: " \o Format(err), sym)
        ELSE build_quote(sym, d))

\* Lines 32-33: the import failed.
not_installed(sym) ==
    outer_except(sym, error_return("vnstock not installed", sym))

\* A plausible slip: only the first error is kept.
keep_first_error(old, e) == IF old = None THEN PyStr(e) ELSE old

\* Line 51: last_error = str(e)
record_error(old, e) == PyStr(e)

(***************************************************************************)
(* Initial state: the process has started, no request has been received.   *)
(***************************************************************************)
Init ==
    /\ API_KEY \in ApiKeys
    /\ VnstockInstalled \in BOOLEAN
    /\ request = NoRequest
    /\ pc = "idle"
    /\ symbols = <<>>
    /\ results = <<>>
    /\ symbol = None
    /\ source_i = 1
    /\ df = Unbound
    /\ last_error = None
    /\ ret = NoReturn
    /\ response = NoResponse
    /\ attempts = <<>>
    /\ raised = None
    /\ served = Unbound
    /\ fetchCalls = 0
    /\ upstreamCalls = 0

\* A request starts with fresh handler locals and fresh counters.
Fresh ==
    /\ symbol' = None
    /\ source_i' = 1
    /\ df' = Unbound
    /\ last_error' = None
    /\ ret' = NoReturn
    /\ attempts' = <<>>
    /\ raised' = None
    /\ served' = Unbound
    /\ fetchCalls' = 0
    /\ upstreamCalls' = 0

Unauthorized == [status |-> 401, body |-> [error |-> "Unauthorized"]]
BadSymbols == [status |-> 400, body |-> [error |-> "symbols must be a non-empty array"]]
\* The framework's answer to an exception that leaves a handler.
Fault(e) == [status |-> 500, body |-> [fault |-> e]]

(***************************************************************************)
(* The informational routes.                                               *)
(***************************************************************************)
\* GET /
index(provided_key) ==
    /\ pc = "idle"
    /\ request' = [route |-> "/", header |-> provided_key, symbol |-> None,
                   body |-> NoBody]
    /\ response' = [status |-> 200,
                    body |-> [service |-> "VNStock API",
                              version |-> "2.0.0-vnstock3",
                              endpoints |->
                                [health |-> "GET /health",
                                 single_stock |-> "GET /api/stock/:symbol",
                                 batch_stocks |->
                                   "POST /api/stocks (body: {symbols: []})"]]]
    /\ symbols' = <<>>
    /\ results' = <<>>
    /\ Fresh
    /\ pc' = "done"
    /\ UNCHANGED config

\* GET /health
health(provided_key) ==
    /\ pc = "idle"
    /\ request' = [route |-> "/health", header |-> provided_key,
                   symbol |-> None, body |-> NoBody]
    /\ response' = [status |-> 200,
                    body |-> [status |-> "healthy", service |-> "vnstock-api",
                              version |-> "2.0.0-vnstock3"]]
    /\ symbols' = <<>>
    /\ results' = <<>>
    /\ Fresh
    /\ pc' = "done"
    /\ UNCHANGED config

(***************************************************************************)
(* GET /api/stock/<symbol>: lines 83-87 up to the call of get_stock_price. *)
(***************************************************************************)
get_stock(sym, provided_key) ==
    /\ pc = "idle"
    /\ request' = [route |-> "/api/stock", header |-> provided_key,
                   symbol |-> sym, body |-> NoBody]
    /\ symbols' = <<>>
    /\ results' = <<>>
    /\ Fresh
    /\ IF ~verify_api_key(provided_key)
       THEN /\ response' = Unauthorized
            /\ pc' = "done"
       ELSE /\ response' = NoResponse
            /\ pc' = "call"
    /\ UNCHANGED config

(***************************************************************************)
(* POST /api/stocks: lines 93-103 up to the first call of get_stock_price. *)
(***************************************************************************)
\* data.get('symbols', [])
data_get_symbols(data) ==
    IF data.kind # "object"
    THEN Raise("'list' object has no attribute 'get'")
    ELSE IF data.has THEN Return(data.symbols) ELSE Return(PyList(<<>>))

\* not symbols or not isinstance(symbols, list)
rejected(syms) == ~Truthy(syms) \/ syms.t # "list"

\* A plausible slip: the body is validated before the key is checked.
get_stocks_batch_validate_first(data, provided_key) ==
    /\ pc = "idle"
    /\ request' = [route |-> "/api/stocks", header |-> provided_key,
                   symbol |-> None, body |-> data]
    /\ results' = <<>>
    /\ Fresh
    /\ LET got == data_get_symbols(data)
       IN  IF ~got.ok
           THEN /\ response' = Fault(got.err)
                /\ symbols' = <<>>
                /\ pc' = "done"
           ELSE IF rejected(got.v)
           THEN /\ response' = BadSymbols
                /\ symbols' = <<>>
                /\ pc' = "done"
           ELSE IF ~verify_api_key(provided_key)
           THEN /\ response' = Unauthorized
                /\ symbols' = <<>>
                /\ pc' = "done"
           ELSE /\ response' = NoResponse
                /\ symbols' = got.v.items
                /\ pc' = "call"
    /\ UNCHANGED config

get_stocks_batch(data, provided_key) ==
    /\ pc = "idle"
    /\ request' = [route |-> "/api/stocks", header |-> provided_key,
                   symbol |-> None, body |-> data]
    /\ results' = <<>>
    /\ Fresh
    /\ LET got == data_get_symbols(data)
       IN  IF ~verify_api_key(provided_key)
           THEN /\ response' = Unauthorized
                /\ symbols' = <<>>
                /\ pc' = "done"
           ELSE IF ~got.ok
           THEN /\ response' = Fault(got.err)
                /\ symbols' = <<>>
                /\ pc' = "done"
           ELSE IF rejected(got.v)
           THEN /\ response' = BadSymbols
                /\ symbols' = <<>>
                /\ pc' = "done"
           ELSE /\ response' = NoResponse
                /\ symbols' = got.v.items
                /\ pc' = "call"
    /\ UNCHANGED config

(***************************************************************************)
(* The handler's continuation when get_stock_price comes back with r:      *)
(* lines 88-90 of get_stock, lines 106-108 of get_stocks_batch.            *)
(***************************************************************************)
\* A plausible slip: the single-symbol route always answers 200.
status_always_ok(result) == 200

\* Lines 88-90: the status get_stock answers with.
status_of(result) == IF "error" \in DOMAIN result THEN 404 ELSE 200

resume(r) ==
    /\ ret' = r
    /\ IF ~r.ok
       THEN /\ response' = Fault(r.err)
            /\ pc' = "done"
            /\ UNCHANGED results
       ELSE IF request.route = "/api/stock"
       THEN /\ response' = [status |-> status_of(r.v), body |-> r.v]
            /\ pc' = "done"
            /\ UNCHANGED results
       ELSE /\ results' = Append(results, r.v)
            /\ IF Len(results') = Len(symbols)
               THEN /\ response' = [status |-> 200,
                                    body |-> [results |-> results',
                                              count |-> Len(results')]]
                    /\ pc' = "done"
               ELSE /\ response' = response
                    /\ pc' = "call"

(***************************************************************************)
(* get_stock_price, step by step.                                          *)
(***************************************************************************)
\* The argument of the next call: the URL's symbol, or the next list item.
next_argument ==
    IF request.route = "/api/stock" THEN request.symbol
    ELSE symbols[Len(results) + 1]

\* Lines 30-37: entry, the import check, the loop's initialisation.
call_get_stock_price ==
    /\ pc = "call"
    /\ symbol' = next_argument
    /\ fetchCalls' = fetchCalls + 1
    /\ source_i' = 1
    /\ df' = Unbound
    /\ last_error' = None
    /\ attempts' = <<>>
    /\ raised' = None
    /\ served' = Unbound
    /\ IF ~VnstockInstalled
       THEN resume(not_installed(next_argument))
       ELSE /\ pc' = "loop"
            /\ ret' = NoReturn
            /\ UNCHANGED <<results, response>>
    /\ UNCHANGED <<config, request, symbols, upstreamCalls>>

\* How an attempt went, for the log: the values the code tells apart.
Kind(o) ==
    CASE o.kind = "argerror" -> "argerror"
      [] o.kind = "raise"    -> "nodata"
      [] o.kind = "return" /\ o.df.t = "frame" /\ o.df.rows # <<>> -> "data"
      [] OTHER               -> "nodata"

\* Lines 39-52: one iteration of the loop over sources; upstream answers with
\* outcome o.
attempt(o) ==
    /\ pc = "loop"
    /\ LET up  == symbol_upper(symbol)
           got == IF up.ok THEN o ELSE ArgError(up.err)
           brk == got.kind = "return" /\ Usable(got.df)
           good == got.kind = "return" /\ got.df.t = "frame" /\ got.df.rows # <<>>
       IN  /\ attempts' = Append(attempts, [source |-> sources[source_i],
                                            got |-> Kind(got)])
           /\ raised' = IF got.kind = "return" THEN raised ELSE PyStr(got.err)
           /\ served' = IF good /\ served = Unbound THEN got.df ELSE served
           /\ upstreamCalls' = IF up.ok THEN upstreamCalls + 1 ELSE upstreamCalls
           /\ df' = IF got.kind = "return" THEN got.df ELSE df
           /\ last_error' = IF got.kind = "return" THEN last_error
                            ELSE record_error(last_error, got.err)
           /\ IF brk \/ source_i = Len(sources)
              THEN /\ pc' = "post"
                   /\ UNCHANGED source_i
              ELSE /\ pc' = "loop"
                   /\ source_i' = source_i + 1
    /\ UNCHANGED <<config, request, symbols, results, symbol, ret, response,
                   fetchCalls>>

\* Lines 55-72, then the handler's continuation.
finish ==
    /\ pc = "post"
    /\ resume(after_loop(symbol, df, last_error))
    /\ UNCHANGED <<config, request, symbols, frame, fetchCalls, upstreamCalls>>

\* The response has been sent: the handler's locals are discarded and the
\* process waits for the next request.
end_request ==
    /\ pc = "done"
    /\ request' = NoRequest
    /\ response' = NoResponse
    /\ symbols' = <<>>
    /\ results' = <<>>
    /\ Fresh
    /\ pc' = "idle"
    /\ UNCHANGED config

Next ==
    \/ \E h \in Headers : index(h)
    \/ \E h \in Headers : health(h)
    \/ \E s \in UrlSymbols, h \in Headers : get_stock(s, h)
    \/ \E b \in Bodies, h \in Headers : get_stocks_batch(b, h)
    \/ call_get_stock_price
    \/ \E o \in Outcomes : attempt(o)
    \/ finish
    \/ end_request

Spec == Init /\ [][Next]_vars

(***************************************************************************)
(* Vocabulary of the properties.  None of it uses the operators that model *)
(* the code's decisions.                                                   *)
(***************************************************************************)
Gated == request.route \in {"/api/stock", "/api/stocks"}
Batch == request.route = "/api/stocks"

\* The request may pass the gate: no key is configured, or the header
\* carries exactly the configured key.
Permitted ==
    \/ API_KEY = None
    \/ API_KEY = PyStr("")
    \/ request.header = API_KEY

\* The batch body carries 'symbols' as a non-empty list.
HasSymbolList ==
    /\ request.body.kind = "object"
    /\ request.body.has
    /\ request.body.symbols.t = "list"
    /\ request.body.symbols.items # <<>>

\* The batch body carries 'symbols' as a non-empty list of strings.
HasSymbolStrings ==
    /\ HasSymbolList
    /\ \A i \in 1..Len(request.body.symbols.items) :
          request.body.symbols.items[i].t = "str"

\* The most recent call of get_stock_price has ended, and the log describes
\* that call.
Returned == ret # NoReturn
IsQuote(d) == "price" \in DOMAIN d /\ "error" \notin DOMAIN d
IsErrorResult(d) == "error" \in DOMAIN d /\ "price" \notin DOMAIN d

SomeSourceServed == \E i \in 1..Len(attempts) : attempts[i].got = "data"
AllSourcesFailed ==
    /\ Len(attempts) = 4
    /\ \A i \in 1..4 : attempts[i].got = "nodata"

\* Every field the Quote needs can be taken from the bar: close is there and
\* converts to a float, open/high/low convert to a float when there, volume
\* converts to an integer when there.
Extractable(bar) ==
    /\ bar["close"].k \in {"num", "nan"}
    /\ \A f \in {"open", "high", "low"} : bar[f].k \in {"absent", "num", "nan"}
    /\ bar["volume"].k \in {"absent", "num"}

(***************************************************************************)
(* C1: the sources are attempted in the order TCBS, VND, MSN, VCI, each at *)
(* most once per call; a source is attempted only when every earlier one   *)
(* raised or returned nothing usable; nothing is attempted after a usable  *)
(* frame came back; and a returned Quote is built from the last bar of     *)
(* that first usable frame.                                                *)
(***************************************************************************)
C1_FallbackOrder ==
    /\ Len(attempts) <= 4
    /\ \A i \in 1..Len(attempts) :
          /\ attempts[i].source = <<"TCBS", "VND", "MSN", "VCI">>[i]
          /\ \A j \in 1..(i - 1) : attempts[j].got # "data"
    /\ (Returned /\ SomeSourceServed) =>
          /\ attempts[Len(attempts)].got = "data"
          /\ served.rows # <<>>
    /\ (Returned /\ ret.ok /\ IsQuote(ret.v)) =>
          /\ SomeSourceServed
          /\ ret.v.price = served.rows[Len(served.rows)]["close"]
          /\ ret.v.date = IF served.rows[Len(served.rows)]["time"] = Absent
                          THEN end_date
                          ELSE served.rows[Len(served.rows)]["time"].s

\* Two sources failed, the third served the Quote, the fourth was not tried.
C1_Witness ==
    /\ Returned /\ ret.ok /\ IsQuote(ret.v)
    /\ Len(attempts) = 3
    /\ attempts[3].source = "MSN"
    /\ attempts[3].got = "data"

(***************************************************************************)
(* C2 as stated: whenever some source returned a non-empty bar set, the    *)
(* call returns a Quote whose symbol is the uppercased input, whatever     *)
(* fields the last bar carries.                                            *)
(***************************************************************************)
C2_QuoteWhateverFields ==
    (Returned /\ SomeSourceServed) =>
        /\ ret.ok
        /\ IsQuote(ret.v)
        /\ ret.v.symbol = Upper(symbol.s)

(***************************************************************************)
(* C2 amended: whenever some source returned a non-empty bar set whose     *)
(* last bar has a close that converts to a float, and open/high/low/volume *)
(* that convert when present, the call returns a Quote whose symbol is the *)
(* uppercased input.                                                       *)
(***************************************************************************)
C2_QuoteWhenExtractable ==
    (Returned /\ SomeSourceServed /\ Extractable(served.rows[Len(served.rows)])) =>
        /\ ret.ok
        /\ IsQuote(ret.v)
        /\ ret.v.symbol = Upper(symbol.s)

\* A lower-case symbol served by the second source after the first failed.
C2_Witness ==
    /\ Returned /\ SomeSourceServed
    /\ Extractable(served.rows[Len(served.rows)])
    /\ symbol = PyStr("fpt")
    /\ Len(attempts) = 2
    /\ ret.ok /\ ret.v.symbol = "FPT"

(***************************************************************************)
(* C3: when each of the four sources raised or returned nothing usable,    *)
(* the call returns an ErrorResult whose message contains the symbol and   *)
(* the text of the most recent error raised, or says that no error was     *)
(* recorded when no source raised.                                         *)
(***************************************************************************)
C3_AllSourcesFail ==
    (Returned /\ AllSourcesFailed) =>
        /\ ret.ok
        /\ IsErrorResult(ret.v)
        /\ Contains(ret.v.error, symbol.s)
        /\ Contains(ret.v.error,
                    "Last error: " \o (IF raised = None THEN "None" ELSE raised.s))

\* A source raised, and a source returned an empty frame.
C3_Witness ==
    /\ Returned /\ AllSourcesFailed
    /\ raised = PyStr("blocked")
    /\ df = DFEmpty
    /\ ret.ok /\ IsErrorResult(ret.v)

(***************************************************************************)
(* C4: get_stock_price never lets an exception out: every call ends by     *)
(* returning a Quote or an ErrorResult.                                    *)
(***************************************************************************)
C4_NeverPropagates ==
    Returned => (ret.ok /\ (IsQuote(ret.v) \/ IsErrorResult(ret.v)))

(***************************************************************************)
(* C5: an authorized batch request whose 'symbols' is a non-empty list is  *)
(* answered 200 with count and results of the list's length, results[i]    *)
(* carrying the uppercased symbols[i]; while it runs, the results so far   *)
(* are those of the first symbols, in order.                               *)
(***************************************************************************)
C5_BatchComplete ==
    (Batch /\ Permitted /\ HasSymbolList) =>
        /\ Len(results) <= Len(request.body.symbols.items)
        /\ (pc = "done") =>
              /\ response.status = 200
              /\ response.body.count = Len(request.body.symbols.items)
              /\ Len(response.body.results) = Len(request.body.symbols.items)
              /\ \A i \in 1..Len(request.body.symbols.items) :
                    response.body.results[i].symbol
                        = Upper(request.body.symbols.items[i].s)

(***************************************************************************)
(* C6: in a batch, the result for symbols[i] is delivered whatever happens *)
(* to the other symbols: the answered batch holds, at position i, the      *)
(* Quote or ErrorResult of every string symbols[i].                        *)
(***************************************************************************)
C6_BatchIsolation ==
    (pc = "done" /\ Batch /\ Permitted /\ HasSymbolList) =>
        \A i \in 1..Len(request.body.symbols.items) :
            request.body.symbols.items[i].t = "str" =>
                /\ "results" \in DOMAIN response.body
                /\ Len(response.body.results) >= i
                /\ (IsQuote(response.body.results[i])
                    \/ IsErrorResult(response.body.results[i]))

(***************************************************************************)
(* C7: with no key configured (unset or empty) every request to a gated    *)
(* route passes; with a key configured a request passes exactly when its   *)
(* header equals the key, and is otherwise answered 401 with the body      *)
(* {"error": "Unauthorized"}; / and /health always answer 200.             *)
(***************************************************************************)
C7_AuthGate ==
    /\ (request.route \in {"/", "/health"}) => response.status = 200
    /\ Gated =>
          /\ (response.status = 401) <=> ~Permitted
          /\ (response.status = 401) =>
                (pc = "done" /\ response.body = [error |-> "Unauthorized"])

\* A header differing from the key only in case is refused.
C7_Witness ==
    /\ pc = "done" /\ Gated
    /\ API_KEY = PyStr("secret")
    /\ request.header = PyStr("Secret")
    /\ response.status = 401

(***************************************************************************)
(* C8: an authorized batch request whose JSON object does not carry        *)
(* 'symbols' as a non-empty list of strings is answered 400 with an error  *)
(* that mentions 'symbols'.                                                *)
(***************************************************************************)
C8_MalformedRejected ==
    (pc = "done" /\ Batch /\ Permitted /\ request.body.kind = "object"
     /\ ~HasSymbolStrings) =>
        /\ response.status = 400
        /\ Contains(response.body.error, "symbols")

(***************************************************************************)
(* C9: the authorized single-symbol route calls get_stock_price once and   *)
(* answers 404 with the ErrorResult exactly when the call returned an      *)
(* ErrorResult, 200 with the Quote exactly when it returned a Quote; no    *)
(* returned record is both.                                                *)
(***************************************************************************)
C9_SingleRoute ==
    /\ (Returned /\ ret.ok) => (IsQuote(ret.v) \/ IsErrorResult(ret.v))
    /\ (request.route = "/api/stock" /\ Permitted) =>
          /\ fetchCalls <= 1
          /\ (pc = "done") =>
                /\ fetchCalls = 1
                /\ ret.ok
                /\ response.body = ret.v
                /\ response.status \in {200, 404}
                /\ (response.status = 404) <=> IsErrorResult(ret.v)
                /\ (response.status = 200) <=> IsQuote(ret.v)

\* A lookup that found no data is answered 404.
C9_Witness ==
    /\ pc = "done"
    /\ request.route = "/api/stock"
    /\ response.status = 404
    /\ IsErrorResult(response.body)
    /\ AllSourcesFailed

(***************************************************************************)
(* C10: on a gated route the key is checked before the body, and the body  *)
(* before any fetch: a request answered 401 or 400 made no call of         *)
(* get_stock_price and no upstream call, every call made belongs to a      *)
(* request that passed both checks, and a request that fails the key check *)
(* is answered 401 even when its body is malformed.                        *)
(***************************************************************************)
C10_CheckOrder ==
    /\ (response.status \in {400, 401}) => (fetchCalls = 0 /\ upstreamCalls = 0)
    /\ (fetchCalls > 0 \/ upstreamCalls > 0 \/ pc \in {"call", "loop", "post"}) =>
          /\ Gated /\ Permitted
          /\ Batch => HasSymbolList
    /\ (pc = "done" /\ Batch /\ ~Permitted) => response.status = 401
    /\ (pc = "done" /\ Batch /\ Permitted /\ request.body.kind = "object"
        /\ ~HasSymbolList) => response.status = 400

\* An unauthorized request with a malformed body is answered 401.
C10_Witness ==
    /\ pc = "done" /\ Batch
    /\ ~Permitted
    /\ ~HasSymbolList
    /\ response.status = 401
    /\ fetchCalls = 0

====
